---- MODULE Spec2Model ----
(***************************************************************************)
(* A model of go-spatial-hash (src/spatial_hash.go): a 2D spatial hash     *)
(* that buckets caller-owned nodes into grid cells.                        *)
(*                                                                         *)
(* Numbers.  The coordinate type N is a type parameter (Number).  The      *)
(* model carries it as the variable kind: "float64" (values are the        *)
(* integer-valued floats, on which float64 arithmetic is exact within the  *)
(* bounds), "int" (Go's signed integer, whose / truncates toward zero) or  *)
(* "uint8" (an unsigned integer: its arithmetic wraps modulo 2^8).         *)
(*                                                                         *)
(* Heap.  The cell table maps an int key to a *bucket; a bucket is a       *)
(* reference, so the model has a table (buckets: key -> reference) and a   *)
(* heap (heap: reference -> set of node ids).  Nodes are identified by     *)
(* their ids; a bucket maps an id to the node, whose live position the     *)
(* queries read through the reference at query time.                       *)
(***************************************************************************)
EXTENDS Integers, Sequences, FiniteSets, TLC

VARIABLES kind, cellSize, pos, old, buckets, heap, pool, bufs, result,
          lastOp, sinceReset, pc, loc, done, stored, call

vars == <<kind, cellSize, pos, old, buckets, heap, pool, bufs, result,
          lastOp, sinceReset, pc, loc, done, stored, call>>

\* What the runs of one caller leave alone: the goroutines' places.
concVars == <<pc, loc, done, stored>>

\* What the concurrent runs leave alone: the record of the one caller.
seqVars == <<lastOp, sinceReset>>

\* What the runs of a spatial hash leave alone: the record of a function
\* applied on its own.
fnVars == <<call>>

\* What a function applied on its own leaves alone: the spatial hash, the
\* nodes and the callers.
hashVars == <<kind, cellSize, pos, old, buckets, heap, pool, bufs, result,
              lastOp, sinceReset, pc, loc, done, stored>>

-----------------------------------------------------------------------------
(* Bounds of the model.                                                    *)

MaxCoord == 2
MaxRadius == 3

\* The most buffers the pool is followed holding: beyond it the pool drops
\* one, as it may at any time.
MaxPooled == 1

Nodes == {1, 2}

\* The calling goroutines; goroutine t drives node t (one writer per node).
\* Main is the one caller of the sequential runs.
Threads == Nodes
Main == CHOOSE t \in Threads : \A u \in Threads : t <= u

Kinds == {"float64", "int"}

\* The unsigned coordinate types, by the one the model carries.
UnsignedKinds == {"uint8"}

CellSizes == {2}

\* Positions the callers give their nodes: two in the cell of the origin and
\* one with a negative y in the row of cells below.
Pts == {<<0, 0>>, <<1, 1>>, <<1, -MaxCoord>>}

\* The positions a coordinate type can hold: an unsigned one has no negative
\* coordinate, and the third position lies the same distance above.
PtsOf(k) ==
    IF k \in UnsignedKinds
    THEN {<<p[1], IF p[2] < 0 THEN -p[2] ELSE p[2]>> : p \in Pts}
    ELSE Pts

\* The zero value of a node's cached previous position.
Zero == <<0, 0>>

Centers == {<<1, 1>>, <<MaxCoord, 0>>}
Radii == {0, 1, MaxRadius}
Extents == {0, MaxRadius}

-----------------------------------------------------------------------------
(* Arithmetic of the coordinate type.                                      *)

\* math.Floor of a real quotient a / b, b > 0.
FloorDiv(a, b) == a \div b

\* Go's integer division: the quotient truncated toward zero.
TruncDiv(a, b) == IF a >= 0 THEN a \div b ELSE -((-a) \div b)

\* The value of an expression in the coordinate type: an unsigned integer
\* wraps around modulo 2^8, the other types hold every value in the bounds.
Wrap(k, v) == IF k \in UnsignedKinds THEN v % (2 ^ 8) ELSE v

\* int(math.Floor(float64(c / cellSize))): the division is done in N, so it
\* is real division for a float and truncating division for an integer.
cellIndex(k, c, cs) == IF k = "float64" THEN FloorDiv(c, cs) ELSE TruncDiv(c, cs)

\* Bitwise exclusive or of two integers in two's complement.
RECURSIVE Xor(_, _)
Xor(a, b) ==
    IF a = 0 THEN b
    ELSE IF b = 0 THEN a
    ELSE IF a = -1 /\ b = -1 THEN 0
    ELSE (((a % 2) + (b % 2)) % 2) + 2 * Xor(a \div 2, b \div 2)

ShiftBits == 16

TwoToShift == 2 ^ ShiftBits

\* A key with a shift of 15 bits.
pairPointNarrow(x, y) ==
    (Xor(x, y \div (2 ^ 15)) * (2 ^ 15)) + (y % (2 ^ 15))

\* (x << 16) ^ y on Go's int: bits 16 and up are x xor (y >> 16), the low 16
\* bits are those of y.
pairPoint(x, y) == (Xor(x, y \div TwoToShift) * TwoToShift) + (y % TwoToShift)

calculatePositionKey(k, cs, p) ==
    pairPoint(cellIndex(k, p[1], cs), cellIndex(k, p[2], cs))

-----------------------------------------------------------------------------
(* The cell table (xsync.Map[int, *bucket]) and the buckets.               *)

EmptyMap == [k \in {} |-> {}]

\* A bucket reference: the key it was created for and a generation that
\* tells apart two buckets created for one key.
Refs(m, h) == {m[k] : k \in DOMAIN m} \cup DOMAIN h

newBucket(key, used) ==
    <<key, CHOOSE g \in 0..Cardinality(used) :
              /\ <<key, g>> \notin used
              /\ \A g2 \in 0..(g - 1) : <<key, g2>> \in used>>

MapStore(m, k, v) == [kk \in DOMAIN m \cup {k} |-> IF kk = k THEN v ELSE m[kk]]

\* An Add that stores nothing.
AddNone(h, b, n) == h

\* bucket.Add: nodes.Store(n.GetId(), n).
Add(h, b, n) == [h EXCEPT ![b] = @ \cup {n}]

\* A Delete that deletes nothing.
DeleteNone(h, b, n) == h

\* bucket.Delete: nodes.Delete(n.GetId()).
Delete(h, b, n) == [h EXCEPT ![b] = @ \ {n}]

\* The get-or-create of Put and Update run without interruption: Load, and
\* when the key is absent newBucket and Store; then bucket.Add.
GetOrCreateAdd(m, h, key, n) ==
    IF key \in DOMAIN m
    THEN [b |-> m, h |-> Add(h, m[key], n)]
    ELSE LET nb == newBucket(key, Refs(m, h))
         IN  [b |-> MapStore(m, key, nb),
              h |-> Add(MapStore(h, nb, {}), nb, n)]

\* Whether the bucket stored under key holds n.
Member(m, h, key, n) == key \in DOMAIN m /\ n \in h[m[key]]

\* Put's effect on the table and the buckets.
PutIndex(m, h, key, n) == GetOrCreateAdd(m, h, key, n)

\* A Remove that gets or creates the bucket, as Put does, before it deletes.
RemoveIndexCreate(m, h, key, n) ==
    LET s == GetOrCreateAdd(m, h, key, n)
    IN  [b |-> s.b, h |-> Delete(s.h, s.b[key], n)]

\* A Remove that scans the table and deletes from every bucket.
RemoveIndexAll(m, h, key, n) == [b |-> m, h |-> [r \in DOMAIN h |-> h[r] \ {n}]]

\* A Remove that takes a bucket it has emptied out of the table.
RemoveIndexPrune(m, h, key, n) ==
    IF key \in DOMAIN m /\ h[m[key]] \ {n} = {}
    THEN [b |-> [k \in DOMAIN m \ {key} |-> m[k]],
          h |-> [r \in DOMAIN h \ {m[key]} |-> h[r]]]
    ELSE [b |-> m, h |-> IF key \in DOMAIN m THEN Delete(h, m[key], n) ELSE h]

\* Remove's: Load, and Delete when there is a bucket.
RemoveIndex(m, h, key, n) ==
    [b |-> m, h |-> IF key \in DOMAIN m THEN Delete(h, m[key], n) ELSE h]

\* An Update that deletes from the old bucket and never adds to the new one.
UpdateIndexNoAdd(m, h, key, oldKey, n) ==
    [b |-> m,
     h |-> IF oldKey # key /\ oldKey \in DOMAIN m THEN Delete(h, m[oldKey], n) ELSE h]

\* An Update whose comparison of the keys guards the Add alone: it deletes
\* from the old bucket whatever the cells.
UpdateIndexDeleteFirst(m, h, key, oldKey, n) ==
    LET h1 == IF oldKey \in DOMAIN m THEN Delete(h, m[oldKey], n) ELSE h
    IN  IF oldKey # key THEN GetOrCreateAdd(m, h1, key, n) ELSE [b |-> m, h |-> h1]

\* An Update that gets or creates the bucket and adds whether or not the
\* cell is the cached position's.
UpdateIndexAlways(m, h, key, oldKey, n) ==
    GetOrCreateAdd(m, IF oldKey # key THEN RemoveIndex(m, h, oldKey, n).h ELSE h,
                   key, n)

\* Update's: nothing when the cell is the cached position's; otherwise Delete
\* from the bucket of the cached position's cell, when there is one, then
\* get-or-create and Add.
UpdateIndex(m, h, key, oldKey, n) ==
    IF oldKey # key
    THEN GetOrCreateAdd(m, RemoveIndex(m, h, oldKey, n).h, key, n)
    ELSE [b |-> m, h |-> h]

\* A Clear that leaves the entries in place.
ClearNothing(m) == m

\* buckets.Clear().
Clear(m) == EmptyMap

\* A SetOldPos that stores the zero position.
SetOldPosZero(o, n, p) == [o EXCEPT ![n] = <<0, 0>>]

\* A SetOldPos that stores nothing.
SetOldPosNone(o, n, p) == o

\* n.SetOldPos(x, y).
SetOldPosOf(o, n, p) == [o EXCEPT ![n] = p]

-----------------------------------------------------------------------------
(* The queries' scan of the cell range.                                    *)

\* The members of a set of ids as a sequence, ascending.  (xsync's Range fixes
\* no order; the claims are about the ids returned.)
RECURSIVE SortedSeq(_)
SortedSeq(S) ==
    IF S = {} THEN <<>>
    ELSE LET m == CHOOSE a \in S : \A b \in S : a <= b
         IN  <<m>> \o SortedSeq(S \ {m})

\* ForEach over the bucket stored under key, when there is one.
ForEach(m, h, key) == IF key \in DOMAIN m THEN SortedSeq(h[m[key]]) ELSE <<>>

\* Loops that stop before the last row and the last column (< for <=).
CellRangeExclusive(minX, maxX, minY, maxY) ==
    LET w == maxX - minX
        ht == maxY - minY
    IN  IF w <= 0 \/ ht <= 0 THEN <<>>
        ELSE [i \in 1..(w * ht) |->
                 <<minX + ((i - 1) % w), minY + ((i - 1) \div w)>>]

\* for yy := minY..maxY { for xx := minX..maxX { ... } }: the cells in the
\* order the loops visit them.
CellRange(minX, maxX, minY, maxY) ==
    LET w == maxX - minX + 1
        ht == maxY - minY + 1
    IN  IF w <= 0 \/ ht <= 0 THEN <<>>
        ELSE [i \in 1..(w * ht) |->
                 <<minX + ((i - 1) % w), minY + ((i - 1) \div w)>>]

\* The members of the buckets of the cells, in visiting order.
RECURSIVE Visit(_, _, _)
Visit(m, h, cells) ==
    IF cells = <<>> THEN <<>>
    ELSE ForEach(m, h, pairPoint(Head(cells)[1], Head(cells)[2]))
             \o Visit(m, h, Tail(cells))

\* dx*dx + dy*dy <= radiusSq on the node's live position, in the type N.
InDisc(k, ps, n, c, r) ==
    LET dx == Wrap(k, ps[n][1] - c[1])
        dy == Wrap(k, ps[n][2] - c[2])
    IN  Wrap(k, Wrap(k, dx * dx) + Wrap(k, dy * dy)) <= Wrap(k, r * r)

\* A scan whose lookup stores a bucket under every key it does not find.
LoadedOrStored(m, h, cells) ==
    LET keys == {pairPoint(cells[i][1], cells[i][2]) : i \in DOMAIN cells}
        made == {<<k, 0>> : k \in keys \ DOMAIN m}
    IN  [b |-> [k \in DOMAIN m \cup keys |-> IF k \in DOMAIN m THEN m[k] ELSE <<k, 0>>],
         h |-> [r \in DOMAIN h \cup made |-> IF r \in DOMAIN h THEN h[r] ELSE {}]]

\* The table and the buckets after a query's scan of the cells: buckets.Load
\* and bucket.ForEach store nothing.
Loaded(m, h, cells) == [b |-> m, h |-> h]

\* The cells Search visits.
SearchCells(k, cs, c, r) ==
    CellRange(cellIndex(k, Wrap(k, c[1] - r), cs),
              cellIndex(k, Wrap(k, c[1] + r), cs),
              cellIndex(k, Wrap(k, c[2] - r), cs),
              cellIndex(k, Wrap(k, c[2] + r), cs))

\* What Search appends to nodes.
SearchNodes(k, cs, m, h, ps, c, r) ==
    LET Keep(n) == InDisc(k, ps, n, c, r)
    IN  SelectSeq(Visit(m, h, SearchCells(k, cs, c, r)), Keep)

\* A bound that subtracts the half extent for the upper end too.
rectIndexLow(k, x, wd, d, cs) ==
    IF k = "float64"
    THEN (((2 * x) - wd) \div (2 * cs))
    ELSE IF x - (wd \div 2) >= 0 THEN (x - (wd \div 2)) \div cs
         ELSE -((-(x - (wd \div 2))) \div cs)

\* int(math.Floor(float64((x -+ width/N(2)) / cellSize))), d = -1 or 1.  For a
\* float the half is exact, so the quotient is (2x + d*width) / (2 cellSize);
\* for an integer width/2 truncates first.
rectIndex(k, x, wd, d, cs) ==
    IF k = "float64"
    THEN FloorDiv((2 * x) + (d * wd), 2 * cs)
    ELSE cellIndex(k, Wrap(k, x + (d * TruncDiv(wd, 2))), cs)

\* The cells QueryRect visits.
QueryRectCells(k, cs, c, wd, ht) ==
    CellRange(rectIndex(k, c[1], wd, -1, cs), rectIndex(k, c[1], wd, 1, cs),
              rectIndex(k, c[2], ht, -1, cs), rectIndex(k, c[2], ht, 1, cs))

\* What QueryRect appends to nodes: every member, unfiltered.
QueryRectNodes(k, cs, m, h, c, wd, ht) ==
    Visit(m, h, QueryRectCells(k, cs, c, wd, ht))

-----------------------------------------------------------------------------
(* The result pool (zeropool.Pool) and the slices.  A buffer is a backing  *)
(* array with an identity.  pool holds the buffers Put into the pool; bufs *)
(* gives, for each buffer some slice refers to (the nodes of a query in    *)
(* progress, a result a caller holds), the nodes at the front of it.  A    *)
(* pooled buffer no slice refers to has no content a program can read:     *)
(* the next query takes it at length 0 (result[:0]).                       *)

NoBuf == -1

\* The smallest identity of a pool buffer not in use.
FreshBuf(used) == CHOOSE b \in 0..Cardinality(used) :
                     b \notin used /\ \A b2 \in 0..(b - 1) : b2 \in used

\* The array make gives goroutine t for its finalResult.  A goroutine holds
\* one such array at a time (it lets go of its last result when it calls the
\* next query), so the array is named by the goroutine; the names are apart
\* from those of the pool's buffers, which New makes.
FinalBuf(t) == -(t + 1)

\* nodePool.Get(), with the buffers in use some slice refers to: buf is a
\* pooled buffer, or a new one from New(), which the pool may choose whatever
\* it holds; rest is the pool after the call, which may have dropped any of
\* the buffers it held or kept them all.  A new buffer may take the identity
\* of a dropped one.
PoolGet(pl, used) ==
    UNION {{[buf |-> b, rest |-> r] : r \in SUBSET (pl \ {b})} : b \in pl}
        \cup {[buf |-> FreshBuf(r \cup used), rest |-> r] : r \in SUBSET pl}

\* nodePool.Put(b), with the buffers some slice still refers to: the pools
\* that can follow, b pooled and any of the others dropped.  A buffer no
\* slice refers to any more has no identity a program can tell: the pool
\* names it anew, by the smallest identity free.
PoolPut(pl, b, used) ==
    {r \cup {IF b \in used THEN b ELSE FreshBuf(r \cup used)} :
        r \in {q \in SUBSET (pl \ {b}) : Cardinality(q) < MaxPooled}}

\* The buffers the callers' results refer to.
Held(rs) == {rs[t] : t \in Threads} \ {NoBuf}

Restrict(f, S) == [x \in DOMAIN f \cap S |-> f[x]]

-----------------------------------------------------------------------------
(* Operations, each run from call to return by the one caller Main.        *)

\* A call that returns no slice: the caller lets go of the slice its last
\* query returned; the pool keeps its buffers.
NoQuery ==
    /\ result' = [result EXCEPT ![Main] = NoBuf]
    /\ bufs' = Restrict(bufs, Held(result'))
    /\ UNCHANGED pool

\* What the last completed call was: its name and its node (0: none); for a
\* query its centre p and its radius a or extents a, b; for Remove and Update
\* what the call found: a = 1 when the bucket of the node's cell held the
\* node, and for Update the cached previous position p it read and b = 1
\* when the bucket of that position's cell held the node, and again = TRUE
\* when the call before it was an Update of the same node.
Op(o, n, p, a, b) ==
    [op |-> o, n |-> n, p |-> p, a |-> a, b |-> b, again |-> FALSE]

NodeOp(o, n) == Op(o, n, Zero, 0, 0)

Bit(x) == IF x THEN 1 ELSE 0

\* No bucket: what a goroutine holds when Load found none.
NoRef == <<0, -1>>

\* A goroutine's local variables: key, oldKey, the bucket it loaded or made,
\* the pooled buffer behind nodes and the length of nodes, finalResult, the
\* query it is in, rst = TRUE when a Reset has run since the call began, and
\* for a query the cells its loops have still to visit and, for Search, the
\* centre c and the radius r, and inside a ForEach the members the bucket
\* had when it began (must) and those it has called the function for (seen).
Loc0 == [key |-> 0, oldKey |-> 0, bkt |-> NoRef, buf |-> NoBuf, len |-> 0,
         fin |-> NoBuf, q |-> "none", rst |-> FALSE,
         cells |-> <<>>, c |-> Zero, r |-> 0, must |-> {}, seen |-> {}]

\* A goroutine's last completed call and the key it inserted under; over =
\* TRUE when a Reset ran while the call was under way, after = TRUE when one
\* ran after it had returned, moved = TRUE when the caller has moved its
\* node since the call returned.
Call(o, k) ==
    [op |-> o, key |-> k, over |-> FALSE, after |-> FALSE, moved |-> FALSE]

NoCall == Call("none", 0)

\* A function applied on its own: its name, its arguments, its value.
Fn(f, arg, ret) == [fn |-> f, arg |-> arg, ret |-> ret]

NoFn == Fn("none", <<>>, 0)

Key(p) == calculatePositionKey(kind, cellSize, p)

\* The state after NewSpatialHash, for a coordinate type among K: the nodes
\* are the callers', each with its cached position never set or set to its
\* position.
InitOf(K) ==
    /\ kind \in K
    /\ cellSize \in CellSizes
    /\ pos \in [Nodes -> PtsOf(kind)]
    /\ old \in {o \in [Nodes -> PtsOf(kind)] : \A n \in Nodes : o[n] \in {pos[n], Zero}}
    /\ buckets = EmptyMap
    /\ heap = EmptyMap
    /\ pool = {}
    /\ bufs = EmptyMap
    /\ result = [t \in Threads |-> NoBuf]
    /\ lastOp = NodeOp("new", 0)
    /\ sinceReset = "none"
    /\ pc = [t \in Threads |-> "idle"]
    /\ loc = [t \in Threads |-> Loc0]
    /\ done = [t \in Threads |-> NoCall]
    /\ stored = EmptyMap
    /\ call = NoFn

Init == InitOf(Kinds)

\* The caller moves a node: it assigns the node's x and y.
Move(n, p) ==
    /\ p # pos[n]
    /\ pos' = [pos EXCEPT ![n] = p]
    /\ NoQuery
    /\ lastOp' = NodeOp("Move", n)
    /\ UNCHANGED <<kind, cellSize, old, buckets, heap, sinceReset, concVars, fnVars>>

\* The caller sets the cached previous position to the node's position, as
\* the README asks before a move.
SetOldPos(n) ==
    /\ old[n] # pos[n]
    /\ old' = SetOldPosOf(old, n, pos[n])
    /\ NoQuery
    /\ lastOp' = NodeOp("SetOldPos", n)
    /\ UNCHANGED <<kind, cellSize, pos, buckets, heap, sinceReset, concVars, fnVars>>

Put(n) ==
    LET s == PutIndex(buckets, heap, Key(pos[n]), n)
    IN  /\ buckets' = s.b
        /\ heap' = s.h
        /\ NoQuery
        /\ lastOp' = NodeOp("Put", n)
        /\ sinceReset' = "none"
        /\ UNCHANGED <<kind, cellSize, pos, old, concVars, fnVars>>

Remove(n) ==
    LET key == Key(pos[n])
        s == RemoveIndex(buckets, heap, key, n)
    IN  /\ buckets' = s.b
        /\ heap' = s.h
        /\ NoQuery
        /\ lastOp' = Op("Remove", n, Zero, Bit(Member(buckets, heap, key, n)), 0)
        /\ UNCHANGED <<kind, cellSize, pos, old, sinceReset, concVars, fnVars>>

Update(n) ==
    LET key == Key(pos[n])
        oldKey == Key(old[n])
        s == UpdateIndex(buckets, heap, key, oldKey, n)
    IN  /\ buckets' = s.b
        /\ heap' = s.h
        /\ old' = SetOldPosOf(old, n, pos[n])
        /\ NoQuery
        /\ lastOp' = [Op("Update", n, old[n],
                           Bit(Member(buckets, heap, key, n)),
                           Bit(Member(buckets, heap, oldKey, n)))
                           EXCEPT !.again = (lastOp.op = "Update" /\ lastOp.n = n)]
        /\ sinceReset' = IF sinceReset # "none" /\ oldKey # key
                         THEN "updated" ELSE sinceReset
        /\ UNCHANGED <<kind, cellSize, pos, concVars, fnVars>>

\* Reset, alone: the buckets it detaches are no longer reachable.
Reset ==
    /\ buckets' = Clear(buckets)
    /\ heap' = Restrict(heap, {buckets'[k] : k \in DOMAIN buckets'})
    /\ NoQuery
    /\ lastOp' = NodeOp("Reset", 0)
    /\ sinceReset' = "reset"
    /\ UNCHANGED <<kind, cellSize, pos, old, concVars, fnVars>>

\* A query that returns nodes, the pooled buffer it appended to.
ReturnedPooled(b, finalResult) == b

\* The slice a query returns: finalResult, made for the caller.
Returned(b, finalResult) == finalResult

\* A query from call to return: Get a buffer, append the nodes found into it
\* from its front, copy them into a slice made for the caller, Put the
\* buffer back.  The caller's variable takes the slice returned.
Query(t, cells, nodes, op) ==
    \E g \in PoolGet(pool, Held([result EXCEPT ![t] = NoBuf])) :
        LET b == g.buf
            others == Held([result EXCEPT ![t] = NoBuf])
            finalResult == FinalBuf(t)
            ret == Returned(b, finalResult)
            s == Loaded(buckets, heap, cells)
        IN  /\ buckets' = s.b
            /\ heap' = s.h
            /\ pool' \in PoolPut(g.rest, b, others \cup {ret})
            /\ result' = [result EXCEPT ![t] = ret]
            /\ bufs' = [x \in others \cup {ret} |->
                           IF x \in {b, finalResult} THEN nodes ELSE bufs[x]]
            /\ lastOp' = op
            /\ UNCHANGED <<kind, cellSize, pos, old, sinceReset, concVars, fnVars>>

Search(c, r) ==
    Query(Main, SearchCells(kind, cellSize, c, r),
          SearchNodes(kind, cellSize, buckets, heap, pos, c, r),
          Op("Search", 0, c, r, 0))

QueryRect(c, wd, ht) ==
    Query(Main, QueryRectCells(kind, cellSize, c, wd, ht),
          QueryRectNodes(kind, cellSize, buckets, heap, c, wd, ht),
          Op("QueryRect", 0, c, wd, ht))

Next ==
    \/ \E n \in Nodes, p \in PtsOf(kind) : Move(n, p)
    \/ \E n \in Nodes : SetOldPos(n)
    \/ \E n \in Nodes : Put(n)
    \/ \E n \in Nodes : Remove(n)
    \/ \E n \in Nodes : Update(n)
    \/ Reset
    \/ \E c \in Centers, r \in Radii : Search(c, r)
    \/ \E c \in Centers, wd \in Extents, ht \in Extents : QueryRect(c, wd, ht)

Spec == Init /\ [][Next]_vars

\* The same calls on a spatial hash of an unsigned coordinate type.
InitUnsigned == InitOf(UnsignedKinds)

SpecUnsigned == InitUnsigned /\ [][Next]_vars

-----------------------------------------------------------------------------
(* The same calls made by two goroutines at once, step by step.  A step is *)
(* one call on the table, on a bucket or on the pool, each of which is     *)
(* safe for concurrent use and takes effect at once; what the code does    *)
(* between two of them is the goroutine's own.  Goroutine t calls with     *)
(* node t, and lets go of the slice its last query returned when it calls  *)
(* the next query.  No Reset and no Remove run here.                       *)

Idle(t) == pc[t] = "idle"

At(t, l) == pc' = [pc EXCEPT ![t] = l]

\* The buckets still reachable: from the table or from a goroutine's local.
Live(m, lc) == {m[k] : k \in DOMAIN m} \cup {lc[u].bkt : u \in Threads}

\* The buffers a slice refers to: the results held, the buffers behind the
\* nodes of the queries in progress, their finalResults.
Referred(rs, lc) ==
    (Held(rs) \cup {lc[u].buf : u \in Threads} \cup {lc[u].fin : u \in Threads})
        \ {NoBuf}

\* append onto nodes[:0], len times: the front of the backing array is
\* written over, what lies behind it stays.
Overwrite(arr, nodes) ==
    [i \in 1..(IF Len(arr) > Len(nodes) THEN Len(arr) ELSE Len(nodes)) |->
        IF i <= Len(nodes) THEN nodes[i] ELSE arr[i]]

Content(bf, b) == IF b \in DOMAIN bf THEN bf[b] ELSE <<>>

\* The count of Stores made under a key since the table was made or cleared.
Stored(k) == IF k \in DOMAIN stored THEN stored[k] ELSE 0

\* The caller moves its node between two calls.
ConcMove(t, p) ==
    /\ Idle(t)
    /\ p # pos[t]
    /\ pos' = [pos EXCEPT ![t] = p]
    /\ done' = [done EXCEPT ![t].moved = TRUE]
    /\ UNCHANGED <<kind, cellSize, old, buckets, heap, pool, bufs, result,
                   pc, loc, stored, seqVars, fnVars>>

\* The caller writes nil over the elements of the slice it was returned.
ConcWrite(t) ==
    /\ Idle(t)
    /\ result[t] # NoBuf
    /\ \E i \in DOMAIN bufs[result[t]] : bufs[result[t]][i] # 0
    /\ bufs' = [bufs EXCEPT ![result[t]] = [i \in DOMAIN @ |-> 0]]
    /\ UNCHANGED <<kind, cellSize, pos, old, buckets, heap, pool, result,
                   pc, loc, done, stored, seqVars, fnVars>>

\* Put, to its Load: key, and buckets.Load(key).
ConcPutLoad(t) ==
    LET key == Key(pos[t])
    IN  /\ Idle(t)
        /\ loc' = [loc EXCEPT ![t].key = key,
                              ![t].bkt = IF key \in DOMAIN buckets
                                         THEN buckets[key] ELSE NoRef]
        /\ At(t, IF key \in DOMAIN buckets THEN "put_add" ELSE "put_store")
        /\ UNCHANGED <<kind, cellSize, pos, old, buckets, heap, pool, bufs,
                       result, done, stored, seqVars, fnVars>>

\* if !exists: newBucket() and buckets.Store(key, bucket).
ConcStore(t, from, to) ==
    LET key == loc[t].key
        nb == newBucket(key, Refs(buckets, heap))
    IN  /\ pc[t] = from
        /\ buckets' = MapStore(buckets, key, nb)
        /\ loc' = [loc EXCEPT ![t].bkt = nb]
        /\ heap' = Restrict(MapStore(heap, nb, {}), Live(buckets', loc'))
        /\ stored' = MapStore(stored, key, Stored(key) + 1)
        /\ At(t, to)
        /\ UNCHANGED <<kind, cellSize, pos, old, pool, bufs, result, done,
                       seqVars, fnVars>>

ConcPutStore(t) == ConcStore(t, "put_store", "put_add")

\* bucket.Add(n) on the bucket in hand, and return.
ConcPutAdd(t) ==
    /\ pc[t] = "put_add"
    /\ loc' = [loc EXCEPT ![t] = Loc0]
    /\ heap' = Restrict(Add(heap, loc[t].bkt, t), Live(buckets, loc'))
    /\ done' = [done EXCEPT ![t] = [Call("Put", loc[t].key)
                                        EXCEPT !.over = loc[t].rst]]
    /\ At(t, "idle")
    /\ UNCHANGED <<kind, cellSize, pos, old, buckets, pool, bufs, result,
                   stored, seqVars, fnVars>>

\* Update, to its first Load: the keys; with the cell unchanged SetOldPos and
\* return, otherwise buckets.Load(oldKey).
ConcUpdateBegin(t) ==
    LET key == Key(pos[t])
        oldKey == Key(old[t])
    IN  /\ Idle(t)
        /\ IF oldKey = key
           THEN /\ old' = SetOldPosOf(old, t, pos[t])
                /\ done' = [done EXCEPT ![t] = Call("UpdateSame", key)]
                /\ UNCHANGED <<pc, loc>>
           ELSE /\ loc' = [loc EXCEPT ![t].key = key, ![t].oldKey = oldKey,
                                      ![t].bkt = IF oldKey \in DOMAIN buckets
                                                 THEN buckets[oldKey] ELSE NoRef]
                /\ At(t, IF oldKey \in DOMAIN buckets THEN "upd_delete" ELSE "upd_load")
                /\ UNCHANGED <<old, done>>
        /\ UNCHANGED <<kind, cellSize, pos, buckets, heap, pool, bufs, result,
                       stored, seqVars, fnVars>>

\* oldBucket.Delete(n).
ConcUpdateDelete(t) ==
    /\ pc[t] = "upd_delete"
    /\ loc' = [loc EXCEPT ![t].bkt = NoRef]
    /\ heap' = Restrict(Delete(heap, loc[t].bkt, t), Live(buckets, loc'))
    /\ At(t, "upd_load")
    /\ UNCHANGED <<kind, cellSize, pos, old, buckets, pool, bufs, result,
                   done, stored, seqVars, fnVars>>

\* buckets.Load(key).
ConcUpdateLoad(t) ==
    LET key == loc[t].key
    IN  /\ pc[t] = "upd_load"
        /\ loc' = [loc EXCEPT ![t].bkt = IF key \in DOMAIN buckets
                                         THEN buckets[key] ELSE NoRef]
        /\ At(t, IF key \in DOMAIN buckets THEN "upd_add" ELSE "upd_store")
        /\ UNCHANGED <<kind, cellSize, pos, old, buckets, heap, pool, bufs,
                       result, done, stored, seqVars, fnVars>>

ConcUpdateStore(t) == ConcStore(t, "upd_store", "upd_add")

\* bucket.Add(n), n.SetOldPos(x, y), and return.
ConcUpdateAdd(t) ==
    /\ pc[t] = "upd_add"
    /\ loc' = [loc EXCEPT ![t] = Loc0]
    /\ heap' = Restrict(Add(heap, loc[t].bkt, t), Live(buckets, loc'))
    /\ old' = SetOldPosOf(old, t, pos[t])
    /\ done' = [done EXCEPT ![t] = Call("Update", loc[t].key)]
    /\ At(t, "idle")
    /\ UNCHANGED <<kind, cellSize, pos, buckets, pool, bufs, result, stored,
                   seqVars, fnVars>>

\* A query, to its Get: the cells of its loops, and nodePool.Get(), which
\* takes a buffer out of the pool or makes one; nodes is the buffer at
\* length 0.
ConcGet(t, q, cells, c, r) ==
    /\ Idle(t)
    /\ \E g \in PoolGet(pool, Referred([result EXCEPT ![t] = NoBuf], loc)) :
        /\ pool' = g.rest
        /\ loc' = [loc EXCEPT ![t].buf = g.buf, ![t].len = 0, ![t].q = q,
                              ![t].cells = cells, ![t].c = c, ![t].r = r]
    /\ result' = [result EXCEPT ![t] = NoBuf]
    /\ bufs' = Restrict(bufs, Referred(result', loc'))
    /\ At(t, "scan")
    /\ UNCHANGED <<kind, cellSize, pos, old, buckets, heap,
                   done, stored, seqVars, fnVars>>

ConcSearchGet(t, c, r) ==
    ConcGet(t, "Search", SearchCells(kind, cellSize, c, r), c, r)

ConcQueryRectGet(t, c, wd, ht) ==
    ConcGet(t, "QueryRect", QueryRectCells(kind, cellSize, c, wd, ht), Zero, 0)

\* One turn of the loops, to its Load: sh.buckets.Load(key) for the next
\* cell; with no bucket there the loops go on to the cell after it.
ConcScanLoad(t) ==
    /\ pc[t] = "scan"
    /\ loc[t].cells # <<>>
    /\ LET cell == Head(loc[t].cells)
           key == pairPoint(cell[1], cell[2])
           s == Loaded(buckets, heap, <<cell>>)
       IN  /\ buckets' = s.b
           /\ heap' = s.h
           /\ IF key \in DOMAIN buckets
              THEN /\ loc' = [loc EXCEPT ![t].bkt = buckets[key]]
                   /\ At(t, "range")
              ELSE /\ loc' = [loc EXCEPT ![t].cells = Tail(@)]
                   /\ UNCHANGED pc
    /\ UNCHANGED <<kind, cellSize, pos, old, pool, bufs, result,
                   done, stored, seqVars, fnVars>>

\* bucket.ForEach begins on the bucket loaded.
ConcRangeBegin(t) ==
    /\ pc[t] = "range"
    /\ loc' = [loc EXCEPT ![t].must = heap[loc[t].bkt], ![t].seen = {}]
    /\ At(t, "each")
    /\ UNCHANGED <<kind, cellSize, pos, old, buckets, heap, pool, bufs, result,
                   done, stored, seqVars, fnVars>>

\* ForEach calls the function for a member n it has not called it for, in
\* whatever order the map keeps: n is appended to nodes, for Search when its
\* position now lies in the disc.
ConcRangeEach(t, n) ==
    LET keep == loc[t].q = "QueryRect"
                    \/ InDisc(kind, pos, n, loc[t].c, loc[t].r)
        arr == Content(bufs, loc[t].buf)
        nodes == SubSeq(arr, 1, loc[t].len) \o (IF keep THEN <<n>> ELSE <<>>)
    IN  /\ pc[t] = "each"
        /\ n \in heap[loc[t].bkt] \ loc[t].seen
        /\ bufs' = MapStore(bufs, loc[t].buf, Overwrite(arr, nodes))
        /\ loc' = [loc EXCEPT ![t].len = Len(nodes), ![t].seen = @ \cup {n}]
        /\ UNCHANGED <<kind, cellSize, pos, old, buckets, heap, pool, result,
                       pc, done, stored, seqVars, fnVars>>

\* ForEach returns: it has called the function for every member the bucket
\* had when it began and still has; a member added since it may have passed
\* over.  The loops go on to the next cell.
ConcRangeEnd(t) ==
    /\ pc[t] = "each"
    /\ (loc[t].must \cap heap[loc[t].bkt]) \subseteq loc[t].seen
    /\ loc' = [loc EXCEPT ![t].bkt = NoRef, ![t].cells = Tail(@),
                          ![t].must = {}, ![t].seen = {}]
    /\ heap' = Restrict(heap, Live(buckets, loc'))
    /\ At(t, "scan")
    /\ UNCHANGED <<kind, cellSize, pos, old, buckets, pool, bufs, result,
                   done, stored, seqVars, fnVars>>

\* After the loops: finalResult := make(NodeSlice[N], len(nodes));
\* copy(finalResult, nodes).
ConcCopy(t) ==
    LET finalResult == FinalBuf(t)
    IN  /\ pc[t] = "scan"
        /\ loc[t].cells = <<>>
        /\ loc' = [loc EXCEPT ![t].fin = finalResult]
        /\ bufs' = MapStore(bufs, finalResult,
                            SubSeq(Content(bufs, loc[t].buf), 1, loc[t].len))
        /\ At(t, "put")
        /\ UNCHANGED <<kind, cellSize, pos, old, buckets, heap, pool, result,
                       done, stored, seqVars, fnVars>>

\* nodePool.Put(result) and return: the caller's variable takes the slice.
ConcReturn(t) ==
    /\ pc[t] = "put"
    /\ result' = [result EXCEPT ![t] = Returned(loc[t].buf, loc[t].fin)]
    /\ loc' = [loc EXCEPT ![t] = Loc0]
    /\ pool' \in PoolPut(pool, loc[t].buf, Referred(result', loc'))
    /\ bufs' = Restrict(bufs, Referred(result', loc'))
    /\ At(t, "idle")
    /\ UNCHANGED <<kind, cellSize, pos, old, buckets, heap, done, stored, seqVars, fnVars>>

NextConc ==
    \/ \E t \in Threads, p \in PtsOf(kind) : ConcMove(t, p)
    \/ \E t \in Threads : ConcPutLoad(t)
    \/ \E t \in Threads : ConcPutStore(t)
    \/ \E t \in Threads : ConcPutAdd(t)
    \/ \E t \in Threads : ConcUpdateBegin(t)
    \/ \E t \in Threads : ConcUpdateDelete(t)
    \/ \E t \in Threads : ConcUpdateLoad(t)
    \/ \E t \in Threads : ConcUpdateStore(t)
    \/ \E t \in Threads : ConcUpdateAdd(t)

\* The goroutines insert, move and update their nodes.
SpecConc == Init /\ [][NextConc]_vars

\* Reset called by goroutine t: buckets.Clear().  The buckets it detaches
\* stay with the goroutines that hold them.
ConcReset(t) ==
    /\ Idle(t)
    /\ buckets' = Clear(buckets)
    /\ loc' = [u \in Threads |-> IF Idle(u) THEN loc[u]
                                  ELSE [loc[u] EXCEPT !.rst = TRUE]]
    /\ heap' = Restrict(heap, Live(buckets', loc'))
    /\ done' = [u \in Threads |-> IF Idle(u) /\ done[u].op # "none"
                                   THEN [done[u] EXCEPT !.after = TRUE]
                                   ELSE done[u]]
    /\ stored' = EmptyMap
    /\ UNCHANGED <<kind, cellSize, pos, old, pool, bufs, result, pc,
                   seqVars, fnVars>>

\* One goroutine inserts its node, again and again; the others call Reset.
NextReset ==
    \/ ConcPutLoad(Main)
    \/ ConcPutStore(Main)
    \/ ConcPutAdd(Main)
    \/ \E t \in Threads \ {Main} : ConcReset(t)

SpecReset == Init /\ [][NextReset]_vars

\* The caller sets its node's cached previous position to the node's
\* position between two calls.
ConcSetOldPos(t) ==
    /\ Idle(t)
    /\ old[t] # pos[t]
    /\ old' = SetOldPosOf(old, t, pos[t])
    /\ UNCHANGED <<kind, cellSize, pos, buckets, heap, pool, bufs, result,
                   pc, loc, done, stored, seqVars, fnVars>>

\* The calls of a goroutine that keeps to the README: it Puts its node once,
\* whatever the cached previous position of the node; before it moves the
\* node it calls SetOldPos with the position the node is to leave, unless
\* the cached position is that already (the node was made so, or Update has
\* set it); then it moves the node, and then it calls Update.
ProtocolPut(t) == done[t].op = "none" /\ ConcPutLoad(t)

ProtocolSetOldPos(t) ==
    done[t].op # "none" /\ ~done[t].moved /\ ConcSetOldPos(t)

ProtocolMove(t, p) ==
    done[t].op # "none" /\ ~done[t].moved /\ old[t] = pos[t] /\ ConcMove(t, p)

ProtocolUpdate(t) == done[t].moved /\ ConcUpdateBegin(t)

NextProtocol ==
    \/ \E t \in Threads : ProtocolPut(t)
    \/ \E t \in Threads : ConcPutStore(t)
    \/ \E t \in Threads : ConcPutAdd(t)
    \/ \E t \in Threads : ProtocolSetOldPos(t)
    \/ \E t \in Threads, p \in PtsOf(kind) : ProtocolMove(t, p)
    \/ \E t \in Threads : ProtocolUpdate(t)
    \/ \E t \in Threads : ConcUpdateDelete(t)
    \/ \E t \in Threads : ConcUpdateLoad(t)
    \/ \E t \in Threads : ConcUpdateStore(t)
    \/ \E t \in Threads : ConcUpdateAdd(t)

SpecProtocol == Init /\ [][NextProtocol]_vars

\* The queries the goroutines make: a Search over the four cells around the
\* centre and one over the cells of all the positions, a QueryRect over a
\* column of cells that takes in the cells of all the positions.
ConcCenters == {<<1, 1>>}
ConcRadii == {1, MaxRadius}
ConcWidths == {0}
ConcHeights == {MaxRadius}

\* The nodes as the README makes them for Put, the cached previous position
\* never set, which no step here reads.
InitQuery == Init /\ old = [n \in Nodes |-> Zero]

\* The goroutines insert their nodes, query, and write over what they got.
NextQuery ==
    \/ \E t \in Threads : ConcWrite(t)
    \/ \E t \in Threads : ConcPutLoad(t)
    \/ \E t \in Threads : ConcPutStore(t)
    \/ \E t \in Threads : ConcPutAdd(t)
    \/ \E t \in Threads, c \in ConcCenters, r \in ConcRadii : ConcSearchGet(t, c, r)
    \/ \E t \in Threads, c \in ConcCenters, wd \in ConcWidths, ht \in ConcHeights :
           ConcQueryRectGet(t, c, wd, ht)
    \/ \E t \in Threads : ConcScanLoad(t)
    \/ \E t \in Threads : ConcRangeBegin(t)
    \/ \E t \in Threads, n \in Nodes : ConcRangeEach(t, n)
    \/ \E t \in Threads : ConcRangeEnd(t)
    \/ \E t \in Threads : ConcCopy(t)
    \/ \E t \in Threads : ConcReturn(t)

SpecQuery == InitQuery /\ [][NextQuery]_vars

-----------------------------------------------------------------------------
(* The cell keyer's functions applied on their own, once each run, to      *)
(* arguments at the ends of their ranges.                                  *)

\* The greatest cell coordinate that fits the 16 bits of the key with its
\* sign: 2^15 - 1.
MaxCell == (2 ^ (ShiftBits - 1)) - 1

\* Cell coordinates, and y coordinates one past the range.
CellXs == {-MaxCell, -2, -1, 0, 1, 2, MaxCell}
CellYs == CellXs \cup {-MaxCell - 1, MaxCell + 1}

\* Coordinates and cell sizes for the cell index; -1 over 100 among them.
FnCoords == (-MaxCoord - 2)..(MaxCoord + 2) \cup {-101, -100, 100}
FnCellSizes == CellSizes \cup {1, 3, 100}

InitFn ==
    /\ InitOf({"int"})
    /\ pos = [n \in Nodes |-> Zero]
    /\ old = pos

\* The cell index of one coordinate, as calculatePositionKey computes it.
CellIndexCall(k, c, cs) ==
    /\ call = NoFn
    /\ k \in UnsignedKinds => c >= 0
    /\ call' = Fn("cellIndex", <<k, c, cs>>, cellIndex(k, c, cs))
    /\ UNCHANGED hashVars

\* The keys of two cells.
PairPointCall(p, q) ==
    /\ call = NoFn
    /\ call' = Fn("pairPoint", <<p, q>>, <<pairPoint(p[1], p[2]), pairPoint(q[1], q[2])>>)
    /\ UNCHANGED hashVars

NextFn ==
    \/ \E k \in Kinds \cup UnsignedKinds, c \in FnCoords, cs \in FnCellSizes :
           CellIndexCall(k, c, cs)
    \/ \E p \in CellXs \X CellYs, q \in CellXs \X CellYs : PairPointCall(p, q)

SpecFn == InitFn /\ [][NextFn]_vars

-----------------------------------------------------------------------------
(* What the claims speak of.                                               *)

\* The keys of the buckets of the table that hold n.
MembersIn(m, h, n) == {k \in DOMAIN m : n \in h[m[k]]}

Members(n) == MembersIn(buckets, heap, n)

Ids(sq) == {sq[i] : i \in DOMAIN sq}

\* The ids in the slice the last query returned to Main.
ResultIds == Ids(bufs[result[Main]])

IsQuery == lastOp.op \in {"Search", "QueryRect"}

\* Every registered node is in the bucket of the cell of its live position,
\* as after a Put at that position.
PutAtPosition ==
    \A n \in Nodes : Members(n) # {} => Key(pos[n]) \in Members(n)

DistSq(p, c) ==
    ((p[1] - c[1]) * (p[1] - c[1])) + ((p[2] - c[2]) * (p[2] - c[2]))

Abs(x) == IF x < 0 THEN -x ELSE x

\* p lies in the rectangle centred at c with extents wd, ht.
InRect(p, c, wd, ht) ==
    2 * Abs(p[1] - c[1]) <= wd /\ 2 * Abs(p[2] - c[2]) <= ht

\* In the table m, h with the positions ps: every Search in the bounds
\* returns n when its disc contains n's position, and not otherwise.
FoundExactly(m, h, ps, n) ==
    \A c \in Centers, r \in Radii :
        (n \in Ids(SearchNodes(kind, cellSize, m, h, ps, c, r)))
            <=> (DistSq(ps[n], c) <= r * r)

\* C1: with every registered node Put at its live position, the ids Search
\* returns are those of the registered nodes within the radius of the centre,
\* computed by brute force; radius 0 and radii over many cells included.
C1_SearchExact ==
    (lastOp.op = "Search" /\ PutAtPosition)
        => ResultIds = {n \in Nodes : /\ Members(n) # {}
                                      /\ DistSq(pos[n], lastOp.p) <= lastOp.a * lastOp.a}

\* A Search of the largest radius, over several cells, that returned both
\* nodes, registered in two cells.
C1_Witness ==
    /\ lastOp.op = "Search" /\ lastOp.a = MaxRadius
    /\ PutAtPosition
    /\ Key(pos[1]) # Key(pos[2])
    /\ ResultIds = Nodes

\* C2 as stated: after Update(N) of a node registered in a cell C1 and moved
\* to a position in another cell C2, every Search whose disc contains the
\* position returns N and no other Search does.
C2_Original ==
    [][\A n \in Nodes :
          (/\ lastOp'.op = "Update" /\ lastOp'.n = n
           /\ Members(n) # {} /\ Key(pos[n]) \notin Members(n))
              => FoundExactly(buckets', heap', pos', n)]_vars

\* C2 as amended: the same, when the cached previous position Update reads
\* does not lie in C2.
C2_Migration ==
    [][\A n \in Nodes :
          (/\ lastOp'.op = "Update" /\ lastOp'.n = n
           /\ Members(n) # {} /\ Key(pos[n]) \notin Members(n)
           /\ Key(old[n]) # Key(pos[n]))
              => FoundExactly(buckets', heap', pos', n)]_vars

\* An Update that found the node in the bucket of its cached position's cell
\* and moved it to the bucket of another cell.
C2_Witness ==
    /\ lastOp.op = "Update"
    /\ Key(lastOp.p) # Key(pos[lastOp.n])
    /\ lastOp.a = 0 /\ lastOp.b = 1
    /\ Members(lastOp.n) = {Key(pos[lastOp.n])}

\* C3 as stated: get-or-create is atomic.  Under goroutines running Put and
\* Update at once, no more than one bucket is ever stored under a key, and
\* once a Put or an Update that inserted has returned, with no call of its
\* goroutine under way, the bucket stored under its key holds its node.
C3_Original ==
    /\ \A k \in DOMAIN stored : stored[k] <= 1
    /\ \A t \in Threads :
          (Idle(t) /\ done[t].op \in {"Put", "Update"})
              => Member(buckets, heap, done[t].key, t)

\* C4 as stated: after Put(N) or Update(N), the key of N's cached previous
\* position is the key of a bucket holding N.
C4_Original ==
    (lastOp.op \in {"Put", "Update"} /\ Members(lastOp.n) # {})
        => Key(old[lastOp.n]) \in Members(lastOp.n)

\* C4 as amended: Update(N) sets the cached position to the live position it
\* read, and the bucket of its cell then holds N if the call moved N or the
\* bucket of the cached position's cell held N before; Put(N) leaves the
\* cached position as it was and puts N in the bucket of the live position.
C4_CachedPosition ==
    [][\A n \in Nodes :
          /\ (lastOp'.op = "Update" /\ lastOp'.n = n)
                => /\ old'[n] = pos[n]
                   /\ (Key(old[n]) # Key(pos[n]) \/ Key(old[n]) \in Members(n))
                         => calculatePositionKey(kind, cellSize, old'[n])
                                \in MembersIn(buckets', heap', n)
          /\ (lastOp'.op = "Put" /\ lastOp'.n = n)
                => /\ old' = old
                   /\ Key(pos[n]) \in MembersIn(buckets', heap', n)]_vars

\* A Put of a node whose cached position lies in another cell than its live
\* position: the node is in the bucket of the live position only.
C4_Witness ==
    /\ lastOp.op = "Put"
    /\ Key(old[lastOp.n]) # Key(pos[lastOp.n])
    /\ Members(lastOp.n) = {Key(pos[lastOp.n])}

\* C5: with every registered node Put at its live position, QueryRect returns
\* the id of every registered node whose position lies in the rectangle.
C5_RectSuperset ==
    (lastOp.op = "QueryRect" /\ PutAtPosition)
        => {n \in Nodes : /\ Members(n) # {}
                           /\ InRect(pos[n], lastOp.p, lastOp.a, lastOp.b)}
              \subseteq ResultIds

\* A QueryRect that returned a node inside the rectangle and a node outside
\* it, the two registered in different cells.
C5_Witness ==
    /\ lastOp.op = "QueryRect"
    /\ PutAtPosition
    /\ ResultIds = Nodes
    /\ Key(pos[1]) # Key(pos[2])
    /\ InRect(pos[1], lastOp.p, lastOp.a, lastOp.b)
    /\ ~InRect(pos[2], lastOp.p, lastOp.a, lastOp.b)

\* C6 as stated: after a Reset, until a Put is called, every query returns
\* nothing.
C6_Original ==
    (sinceReset # "none" /\ IsQuery) => bufs[result[Main]] = <<>>

\* C6 as amended: after a Reset, until a Put or an Update that finds the
\* node's cell changed is called, every query returns nothing.
C6_ResetClears ==
    (sinceReset = "reset" /\ IsQuery) => bufs[result[Main]] = <<>>

\* A Search of the largest radius after a Reset and no Put, with a node at
\* its centre.
C6_Witness ==
    /\ sinceReset = "reset"
    /\ lastOp.op = "Search" /\ lastOp.a = MaxRadius
    /\ \E n \in Nodes : pos[n] = lastOp.p
    /\ bufs[result[Main]] = <<>>

\* C7: Remove of a node no bucket holds leaves the table and every bucket as
\* they were.
C7_RemoveAbsent ==
    [][\A n \in Nodes :
          (lastOp'.op = "Remove" /\ lastOp'.n = n /\ Members(n) = {})
              => (buckets' = buckets /\ heap' = heap)]_vars

\* A Remove of a node no bucket holds, addressed to a bucket that holds the
\* other node.
C7_Witness ==
    /\ lastOp.op = "Remove" /\ lastOp.a = 0
    /\ Members(lastOp.n) = {}
    /\ \E m \in Nodes \ {lastOp.n} : Key(pos[lastOp.n]) \in Members(m)

\* C8: Update of a node registered in the cell of its live position, and in
\* no other, changes no bucket and no table entry, and every Search whose
\* disc contains the position returns the node.
C8_SameCellUpdate ==
    [][\A n \in Nodes :
          (lastOp'.op = "Update" /\ lastOp'.n = n /\ Members(n) = {Key(pos[n])})
              => /\ buckets' = buckets
                 /\ heap' = heap
                 /\ FoundExactly(buckets', heap', pos', n)]_vars

\* An Update after a move inside the cell: the cached position it read is
\* another position of the cell, whose bucket held and holds the node.
C8_Witness ==
    /\ lastOp.op = "Update"
    /\ lastOp.p # pos[lastOp.n]
    /\ Key(lastOp.p) = Key(pos[lastOp.n])
    /\ lastOp.a = 1 /\ lastOp.b = 1
    /\ Members(lastOp.n) = {Key(pos[lastOp.n])}

\* A returned slice shares its storage with no pooled buffer, with no buffer
\* a query in progress appends to, and with no other call's slice.
NoSharing ==
    \A t \in Threads :
        result[t] # NoBuf
            => /\ result[t] \notin pool
               /\ \A u \in Threads :
                     /\ result[t] # loc[u].buf
                     /\ u # t => (result[t] # result[u] /\ result[t] # loc[u].fin)

\* A step changes a slice a caller holds only when it is that caller's write,
\* and a caller's write changes no buffer and no slice of another goroutine.
Stable ==
    \A t \in Threads :
        /\ (result[t] # NoBuf /\ result'[t] = result[t])
              => (bufs'[result[t]] = bufs[result[t]] \/ ConcWrite(t))
        /\ ConcWrite(t)
              => \A u \in Threads \ {t} :
                    \A x \in {loc[u].buf, loc[u].fin, result[u]} \cap DOMAIN bufs :
                        x \in DOMAIN bufs' /\ bufs'[x] = bufs[x]

\* C9: the slice Search or QueryRect returns is newly made: under goroutines
\* querying at once and one after the other, it shares storage with no pooled
\* buffer and with no other call's result, no later query changes it, and a
\* caller writing over its slice changes nothing another query returns.
C9_FreshResult == []NoSharing /\ [][Stable]_vars

\* Two callers hold the slices of two queries that ran on the one pooled
\* buffer; one has written over its slice, the other's names a node.
C9_Witness ==
    \E t \in Threads, u \in Threads :
        /\ t # u
        /\ result[t] # NoBuf /\ result[u] # NoBuf
        /\ Cardinality(pool) = 1
        /\ bufs[result[t]] # <<>>
        /\ \A i \in DOMAIN bufs[result[t]] : bufs[result[t]][i] = 0
        /\ bufs[result[u]] # <<>>
        /\ \A i \in DOMAIN bufs[result[u]] : bufs[result[u]][i] # 0

\* C10: a call other than Reset leaves every entry of the table in place,
\* with its bucket.
C10_KeysStay ==
    [][lastOp'.op # "Reset"
          => \A k \in DOMAIN buckets :
                 k \in DOMAIN buckets' /\ buckets'[k] = buckets[k]]_vars

\* A Remove that took the last member out of a bucket, which is still in
\* the table.
C10_Witness ==
    /\ lastOp.op = "Remove" /\ lastOp.a = 1
    /\ Key(pos[lastOp.n]) \in DOMAIN buckets
    /\ heap[buckets[Key(pos[lastOp.n])]] = {}

\* C11 as stated: an Update of a node no bucket holds leaves it in no bucket,
\* whatever its live and cached positions.
C11_Original ==
    [][\A n \in Nodes :
          (lastOp'.op = "Update" /\ lastOp'.n = n /\ Members(n) = {})
              => MembersIn(buckets', heap', n) = {}]_vars

\* C11 as amended: an Update of a node no bucket holds leaves it in no bucket
\* when its cached position lies in the cell of its live position, and
\* otherwise puts it in the bucket of the live position's cell, as Put does.
C11_UpdateInserts ==
    [][\A n \in Nodes :
          (lastOp'.op = "Update" /\ lastOp'.n = n /\ Members(n) = {})
              => MembersIn(buckets', heap', n) =
                     IF Key(old[n]) = Key(pos[n]) THEN {} ELSE {Key(pos[n])}]_vars

\* An Update that found the node in neither of the two cells and left it in
\* the bucket of its live position's cell.
C11_Witness ==
    /\ lastOp.op = "Update"
    /\ Key(lastOp.p) # Key(pos[lastOp.n])
    /\ lastOp.a = 0 /\ lastOp.b = 0
    /\ Members(lastOp.n) = {Key(pos[lastOp.n])}

\* C12: an Update of a node right after an Update of the same node, its
\* position not changed in between, leaves the table, every bucket and the
\* node's cached position as they were.
C12_UpdateIdempotent ==
    [][\A n \in Nodes :
          (/\ lastOp.op = "Update" /\ lastOp.n = n
           /\ lastOp'.op = "Update" /\ lastOp'.n = n)
              => /\ buckets' = buckets
                 /\ heap' = heap
                 /\ old' = old]_vars

\* The second of two Updates in a row: it read the cached position the first
\* had set, and the node is in the bucket of its cell, another node's cell
\* being a different one.
C12_Witness ==
    /\ lastOp.op = "Update" /\ lastOp.again
    /\ lastOp.p = pos[lastOp.n]
    /\ Members(lastOp.n) = {Key(pos[lastOp.n])}
    /\ \E m \in Nodes \ {lastOp.n} : Key(pos[m]) # Key(pos[lastOp.n])

\* The keys of the cells QueryRect visits.
RectKeys(c, wd, ht) ==
    LET cells == QueryRectCells(kind, cellSize, c, wd, ht)
    IN  {pairPoint(cells[i][1], cells[i][2]) : i \in DOMAIN cells}

\* C13: Remove(N) changes no bucket but that of the cell of N's live position
\* and no table entry: a node registered in another cell stays a member of
\* that cell's bucket, and every QueryRect that visits the cell returns it.
C13_RemoveLivesCell ==
    [][\A n \in Nodes :
          (lastOp'.op = "Remove" /\ lastOp'.n = n)
              => /\ buckets' = buckets
                 /\ \A k \in DOMAIN buckets \ {Key(pos[n])} :
                        heap'[buckets[k]] = heap[buckets[k]]
                 /\ \A k \in Members(n) \ {Key(pos[n])} :
                        \A c \in Centers, wd \in Extents, ht \in Extents :
                            k \in RectKeys(c, wd, ht)
                                => n \in Ids(QueryRectNodes(kind, cellSize, buckets',
                                                            heap', c, wd, ht))]_vars

\* A Remove of a node moved to another cell with no Update: the bucket of the
\* cell it was Put in still holds it, and a QueryRect returns it.
C13_Witness ==
    /\ lastOp.op = "Remove" /\ lastOp.a = 0
    /\ Members(lastOp.n) # {}
    /\ Key(pos[lastOp.n]) \notin Members(lastOp.n)
    /\ \E c \in Centers, wd \in Extents, ht \in Extents :
           lastOp.n \in Ids(QueryRectNodes(kind, cellSize, buckets, heap, c, wd, ht))

\* floor((x + d*width/2) / cellSize), d = -1 or 1: the half extent taken in
\* the coordinate type (exact for a float, truncated for an integer), the
\* quotient in the reals.
floorIndex(k, x, wd, d, cs) ==
    IF k = "float64"
    THEN FloorDiv((2 * x) + (d * wd), 2 * cs)
    ELSE FloorDiv(x + (d * TruncDiv(wd, 2)), cs)

\* The keys of the cells (cx, cy) with
\* floor((x - width/2) / cellSize) <= cx <= floor((x + width/2) / cellSize)
\* and the same in y.
FloorRectKeys(c, wd, ht) ==
    LET cells == CellRange(floorIndex(kind, c[1], wd, -1, cellSize),
                           floorIndex(kind, c[1], wd, 1, cellSize),
                           floorIndex(kind, c[2], ht, -1, cellSize),
                           floorIndex(kind, c[2], ht, 1, cellSize))
    IN  {pairPoint(cells[i][1], cells[i][2]) : i \in DOMAIN cells}

\* C14 as stated: the ids QueryRect returns are those of the members of the
\* buckets of the cells between the floors of the rectangle's ends over the
\* cell size, with no filter on the positions.
C14_Original ==
    lastOp.op = "QueryRect"
        => ResultIds = {n \in Nodes :
                           \E k \in FloorRectKeys(lastOp.p, lastOp.a, lastOp.b) :
                               Member(buckets, heap, k, n)}

\* C15 as stated: for an unsigned coordinate type too, with every registered
\* node Put at its live position, the ids Search returns are those of the
\* registered nodes within the radius of the centre, the radius greater than
\* a coordinate of the centre included.
C15_Original ==
    (kind \in UnsignedKinds /\ lastOp.op = "Search" /\ PutAtPosition)
        => ResultIds = {n \in Nodes : /\ Members(n) # {}
                                      /\ DistSq(pos[n], lastOp.p) <= lastOp.a * lastOp.a}

\* C16 as stated: for an integer coordinate type the cell index of a
\* coordinate is the floor of the real quotient coord / cellSize, negative
\* coordinates included, so that cell k covers [k*cellSize, (k+1)*cellSize).
C16_Original ==
    (call.fn = "cellIndex" /\ call.arg[1] # "float64")
        => /\ call.ret = FloorDiv(call.arg[2], call.arg[3])
           /\ call.ret * call.arg[3] <= call.arg[2]
           /\ call.arg[2] < (call.ret + 1) * call.arg[3]

\* A cell coordinate of magnitude less than 2^15.
InCellRange(v) == -MaxCell <= v /\ v <= MaxCell

\* C17: two distinct pairs of cell coordinates, all of magnitude less than
\* 32768, negative ones included, have distinct keys; two distinct pairs have
\* one key only when a coordinate lies outside that range.
C17_KeyInjective ==
    call.fn = "pairPoint"
        => LET p == call.arg[1]
               q == call.arg[2]
           IN  (/\ p # q
                /\ InCellRange(p[1]) /\ InCellRange(p[2])
                /\ InCellRange(q[1]) /\ InCellRange(q[2]))
                   => call.ret[1] # call.ret[2]

\* The keys of two cells at the ends of the range, one with both coordinates
\* negative, which differ in the sign of y alone.
C17_Witness ==
    /\ call.fn = "pairPoint"
    /\ call.arg[1] = <<-MaxCell, -MaxCell>>
    /\ call.arg[2] = <<-MaxCell, MaxCell>>
    /\ call.ret[1] # call.ret[2]

\* C18: Reset is not atomic with a concurrent Put.  A Put that has returned,
\* with no Reset after its return, has left its node out of the bucket stored
\* under its key only when a Reset ran while the Put was under way; and that
\* happens (the witness).
C18_ResetRace ==
    (/\ Idle(Main) /\ done[Main].op = "Put" /\ ~done[Main].after
     /\ ~Member(buckets, heap, done[Main].key, Main))
        => done[Main].over

\* A Put that a Reset overlapped has returned after the Reset: its node is in
\* no bucket of the table, and no Search and no QueryRect returns it.
C18_Witness ==
    /\ Idle(Main) /\ done[Main].op = "Put"
    /\ done[Main].over /\ ~done[Main].after
    /\ Members(Main) = {}
    /\ \A c \in Centers, r \in Radii :
           Main \notin Ids(SearchNodes(kind, cellSize, buckets, heap, pos, c, r))
    /\ \A c \in Centers, wd \in Extents, ht \in Extents :
           Main \notin Ids(QueryRectNodes(kind, cellSize, buckets, heap, c, wd, ht))

\* C19: a node whose goroutine Puts it once and Updates it after every move,
\* its cached previous position being its position whenever it moves (it was
\* Put so, or SetOldPos or Update has set it), is a member of at most one
\* bucket in every state, those inside Update included, whatever the other
\* goroutine does with its own node.
C19_SingleBucket ==
    \A n \in Nodes : Cardinality({r \in DOMAIN heap : n \in heap[r]}) <= 1

\* Inside an Update that moves a node already moved once: the node has been
\* deleted from the old cell's bucket and is not yet in the new cell's, which
\* the other node is in.
C19_Witness ==
    \E t \in Threads :
        /\ pc[t] = "upd_add"
        /\ done[t].op = "Update"
        /\ loc[t].oldKey # loc[t].key
        /\ Members(t) = {}
        /\ \E u \in Threads \ {t} : Members(u) = {loc[t].key}

\* C20: Search and QueryRect, whatever their arguments and the state, leave
\* the keys of the table, the members of every bucket and every node's live
\* and cached positions as they were; a query over cells with no bucket makes
\* no bucket.
C20_QueriesReadOnly ==
    [][lastOp'.op \in {"Search", "QueryRect"}
          => /\ buckets' = buckets
             /\ heap' = heap
             /\ pos' = pos
             /\ old' = old]_vars

\* A QueryRect that visited a cell with no bucket and one whose bucket holds
\* a node: it returned the node, and the cell still has no bucket.
C20_Witness ==
    /\ lastOp.op = "QueryRect"
    /\ ResultIds # {}
    /\ \E k \in RectKeys(lastOp.p, lastOp.a, lastOp.b) : k \notin DOMAIN buckets

====
